---- MODULE Spec2Model ----
(***************************************************************************)
(* LegacyNote authentication controller (controllers/auth.js), its e-mail  *)
(* utility (utils/email.js), the authentication middleware                 *)
(* (middleware/auth.js) and the user store they read and write.            *)
(* One action handles one HTTP request from its first statement to its     *)
(* response, requests being processed one after another; Respond ends the  *)
(* request, and Tick lets the wall clock (Date.now(), in milliseconds)     *)
(* pass between two requests.                                              *)
(***************************************************************************)
EXTENDS Integers, Sequences, FiniteSets, TLC

VARIABLES
    users,   \* the User collection: the sequence of its documents, _id = position
    now,     \* Date.now()
    req,     \* the request being answered, NoReq while the server is idle
    res,     \* the response the handler sent for req
    mail,    \* the message the handler gave to the e-mail utility for req
    before,  \* the User collection as it was when req arrived
    issuedAt,\* per document: when its pending OTP / reset token was stored
    chain,   \* what the middleware chain of req did: next(), next(err), req.user
    trail,   \* the reset tokens used and the passwords set by resetPassword
    codes,   \* per document: the OTPs issued to it, and which of them was consumed
    call,    \* one call of a utility (OTP generation, a function of utils/email.js)
    procs    \* the requests in progress when handlers interleave at their awaits

vars == <<users, now, req, res, mail, before, issuedAt, chain, trail, codes, call, procs>>

----------------------------------------------------------------------------
(* Bounds of the model *)

\* the clock runs over MaxPeriods lifetimes of an OTP and of a reset token
MaxPeriods == 1
\* Math.random() is sampled at k / RandDen, k in 0 .. RandDen - 1
RandDen == 2
\* crypto.randomBytes(20) yields one of the reset tokens 1 .. MaxToken
MaxToken == 1
\* Math.random() is also sampled at the RandFine values nearest to 0 and the
\* RandFine values nearest to 1 of a grid of each denominator of RandomGrids
RandFine == 64

----------------------------------------------------------------------------
(* Values *)

\* a field that is undefined in JavaScript: a missing body field, an unset
\* string field of the document
NoValue == ""
\* an unset Date / token-hash field of a document
Undefined == -1
\* an unset emailVerificationOTP, and an otp missing from the body
NoOtp == << >>

\* no utility is being called
NoCall == [ fn |-> "none" ]

\* the addresses that open an account (register, first Google sign-in), and
\* an address that never does: every request may name either
Registrants == {"a@x"}
Emails == Registrants \cup {"b@x"}
Passwords == {"p1", "p2"}
GoogleIds == {"g1", "g2"}
Names == {"n"}
\* the outcome of the SMTP transport for one message
Transports == {"ok", "verifyFail", "sendFail"}

\* 10 * 60 * 1000 ms, the lifetime register/login/sendVerificationOTP give an OTP
OtpTtl == 10 * 60 * 1000
\* 30 * 60 * 1000 ms, the lifetime forgotPassword gives a reset token
ResetTtl == 30 * 60 * 1000

\* the instants at which a request may arrive: every multiple of a lifetime
\* and the millisecond before it
Instants ==
    {k * ttl - e : k \in 0 .. MaxPeriods, ttl \in {OtpTtl, ResetTtl}, e \in {0, 1}} \cap Nat

----------------------------------------------------------------------------
(* Pure functions *)

RECURSIVE Digits(_)
\* Number.prototype.toString(): the decimal digits of n >= 0, most significant first
Digits(n) == IF n < 10 THEN <<n>> ELSE Append(Digits(n \div 10), n % 10)

RECURSIVE MulDivMod(_, _, _)
\* <<(a * b) \div c, (a * b) % c>> for 0 <= a and 0 <= b, c: the product of
\* Math.random() * 900000 is exact in a double, and is computed here bit by
\* bit of a so that no intermediate value leaves the integers of the checker
MulDivMod(a, b, c) ==
    IF a = 0 THEN <<0, 0>>
    ELSE LET half == MulDivMod(a \div 2, b, c)
             rest == 2 * half[2] + (a % 2) * b
         IN <<2 * half[1] + rest \div c, rest % c>>

\* mutant of OtpAt: Math.floor(Math.random() * 1000000).toString()
OtpAt_FromZero(num, den) == Digits(MulDivMod(num, 1000000, den)[1])

\* Math.floor(100000 + Math.random() * 900000).toString() at Math.random() = num / den
OtpAt(num, den) == Digits(100000 + MulDivMod(num, 900000, den)[1])

\* the OTP at Math.random() = k / RandDen
GenerateOtp(k) == OtpAt(k, RandDen)

\* crypto.createHash('sha256').update(t).digest('hex'): injective, and no
\* token of the model is its own hash
Sha256(t) == t + 100

\* the pre-save hook of the User model stores a hash of the password
HashPassword(p) == <<"bcrypt", p>>

\* user.matchPassword(entered)
MatchPassword(user, entered) == user.password = HashPassword(entered)

\* crypto.randomBytes(16).toString('hex'), the password of a Google-created user
RandomPassword == "rnd"

\* the _id of the document at position i of the store is i; 0 is "no document".
\* findOne returns the first document, in insertion order, that matches
First(S) == IF S = {} THEN 0 ELSE CHOOSE i \in S : \A j \in S : i <= j

\* User.findOne({ email })
FindByEmail(store, email) ==
    First({i \in 1 .. Len(store) : store[i].email = email})

\* mutant of FindByOtp: $gte in place of $gt, an OTP is accepted at its expiry
FindByOtp_Gte(store, email, otp, t) ==
    First({i \in 1 .. Len(store) : /\ store[i].email = email
                                   /\ store[i].emailVerificationOTP = otp
                                   /\ store[i].emailVerificationExpire >= t})

\* User.findOne({ email, emailVerificationOTP: otp, emailVerificationExpire: { $gt: Date.now() } })
FindByOtp(store, email, otp, t) ==
    First({i \in 1 .. Len(store) : /\ store[i].email = email
                                   /\ store[i].emailVerificationOTP = otp
                                   /\ store[i].emailVerificationExpire > t})

\* mutant of FindByResetToken: $gte in place of $gt
FindByResetToken_Gte(store, hash, t) ==
    First({i \in 1 .. Len(store) : /\ store[i].resetPasswordToken = hash
                                   /\ store[i].resetPasswordExpire >= t})

\* User.findOne({ resetPasswordToken, resetPasswordExpire: { $gt: Date.now() } })
FindByResetToken(store, hash, t) ==
    First({i \in 1 .. Len(store) : /\ store[i].resetPasswordToken = hash
                                   /\ store[i].resetPasswordExpire > t})

\* User.create({ name, email, password, isEmailVerified }) and, for Google, googleId
NewUser(name, email, password, verified, googleId) ==
    [ password |-> HashPassword(password), email |-> email, emailVerificationOTP |-> NoOtp,
      emailVerificationExpire |-> Undefined,
      resetPasswordToken |-> Undefined, resetPasswordExpire |-> Undefined,
      name |-> name, googleId |-> googleId,
      isEmailVerified |-> verified ]

----------------------------------------------------------------------------
(* Requests, responses, mail *)

\* req.headers.authorization, "<scheme> <token>": its first word and the
\* word after the first space; no header at all is the scheme NoValue, and a
\* header of one word has the token 0 (split(' ')[1] is undefined).
\* storeFault is not sent by the client: it tells which operation on the
\* store, counted from 1 within the request, throws (0: none does)
NoHeader == [ scheme |-> NoValue, token |-> 0 ]

NoReq == [ password |-> NoValue, email |-> NoValue, otp |-> NoOtp, name |-> NoValue,
           googleId |-> NoValue, op |-> "none", resettoken |-> 0,
           authorization |-> NoHeader, storeFault |-> 0 ]

NoRes == [ user |-> 0, token |-> 0, status |-> 0, success |-> FALSE,
           error |-> NoValue, verificationNeeded |-> "absent", data |-> NoValue,
           message |-> NoValue ]

NoMail == [ otp |-> NoOtp, kind |-> "none", to |-> NoValue, resetToken |-> 0,
            sent |-> FALSE ]

\* mutant of ErrorResponse: the text is sent as message, not as error
ErrorResponse_AsMessage(code, error) == [ NoRes EXCEPT !.status = code, !.message = error ]

\* res.status(code).json({ success: false, error })
ErrorResponse(code, error) == [ NoRes EXCEPT !.status = code, !.error = error ]

\* res.status(200).json({ success: true, data })
DataResponse(data) == [ NoRes EXCEPT !.status = 200, !.success = TRUE, !.data = data ]

\* sendTokenResponse(user, statusCode, res, verificationNeeded = false); the
\* token of user.getSignedJwtToken() carries the user's _id
sendTokenResponse(id, statusCode, verificationNeeded) ==
    [ NoRes EXCEPT !.status = statusCode, !.success = TRUE, !.token = id,
                   !.user = id,
                   !.verificationNeeded = IF verificationNeeded THEN "true" ELSE "false" ]

\* utils/email.js sendVerificationOTP: transporter.verify() then sendMail();
\* either failure is re-thrown, so the mail is sent iff the transport is "ok"
VerificationMail(to, otp, transport) ==
    [ otp |-> otp, kind |-> "otp", to |-> to, resetToken |-> 0,
      sent |-> (transport = "ok") ]

\* utils/email.js sendPasswordResetEmail, resetUrl = frontendUrl/reset-password/<token>
PasswordResetMail(to, token, transport) ==
    [ otp |-> NoOtp, kind |-> "reset", to |-> to, resetToken |-> token,
      sent |-> (transport = "ok") ]

\* what the middleware chain has done for a request: next counts the calls
\* of next(), err those of next(err); user is req.user (the _id of the
\* document, 0 while undefined or null) and assigned tells that req.user was
\* assigned, be it with null
NoChain == [ user |-> 0, next |-> 0, err |-> 0, assigned |-> FALSE ]

\* what a handler leaves behind: the store, the response, the mail it tried to send
Outcome(store, response, message) ==
    [ users |-> store, res |-> response, mail |-> message ]

----------------------------------------------------------------------------
(* Writes to a user document *)

\* user.field = value; await user.save(): the document with _id id is replaced
Save(store, id, doc) == [ store EXCEPT ![id] = doc ]

\* mutant of SetOtp: the OTP is given the lifetime of a reset token
SetOtp_ResetLifetime(user, otp, t) ==
    [ user EXCEPT !.emailVerificationOTP = otp,
                  !.emailVerificationExpire = t + ResetTtl ]

\* user.emailVerificationOTP = otp; user.emailVerificationExpire = Date.now() + 10 * 60 * 1000
SetOtp(user, otp, t) ==
    [ user EXCEPT !.emailVerificationOTP = otp,
                  !.emailVerificationExpire = t + OtpTtl ]

\* mutant of ClearOtp: the expiry is left behind
ClearOtp_KeepExpire(user) ==
    [ user EXCEPT !.emailVerificationOTP = NoOtp ]

\* user.emailVerificationOTP = undefined; user.emailVerificationExpire = undefined
ClearOtp(user) ==
    [ user EXCEPT !.emailVerificationOTP = NoOtp,
                  !.emailVerificationExpire = Undefined ]

\* mutant of SetResetToken: the token is stored as it is mailed
SetResetToken_Plain(user, resetToken, t) ==
    [ user EXCEPT !.resetPasswordToken = resetToken,
                  !.resetPasswordExpire = t + ResetTtl ]

\* user.resetPasswordToken = sha256(resetToken); user.resetPasswordExpire = Date.now() + 30 * 60 * 1000
SetResetToken(user, resetToken, t) ==
    [ user EXCEPT !.resetPasswordToken = Sha256(resetToken),
                  !.resetPasswordExpire = t + ResetTtl ]

\* mutant of ClearResetToken: nothing is cleared
ClearResetToken_Nothing(user) == user

\* user.resetPasswordToken = undefined; user.resetPasswordExpire = undefined
ClearResetToken(user) ==
    [ user EXCEPT !.resetPasswordToken = Undefined,
                  !.resetPasswordExpire = Undefined ]

----------------------------------------------------------------------------
(* Handlers: the outcome of one request on the store `store` at time t *)

\* mutant of register: a duplicate registration re-issues an OTP to the stored user
register_ResendOnDuplicate(store, t, name, email, password, k, transport) ==
    LET existingUser == FindByEmail(store, email)
        otp == GenerateOtp(k)
        created == Append(store, NewUser(name, email, password, FALSE, NoValue))
        id == Len(created)
        saved == Save(created, id, SetOtp(created[id], otp, t))
        m == VerificationMail(email, otp, transport)
    IN
    IF existingUser # 0
    THEN Outcome(Save(store, existingUser, SetOtp(store[existingUser], otp, t)),
                 ErrorResponse(400, "Email already registered"), m)
    ELSE IF m.sent
    THEN Outcome(saved, sendTokenResponse(id, 201, TRUE), m)
    ELSE Outcome(Save(saved, id, ClearOtp(saved[id])),
                 ErrorResponse(500, "Registration initiated but verification email could not be sent. Please try again or contact support."),
                 m)

\* mutant of register: the document is removed again when the mail fails
register_DeleteOnMailFailure(store, t, name, email, password, k, transport) ==
    LET existingUser == FindByEmail(store, email)
        otp == GenerateOtp(k)
        created == Append(store, NewUser(name, email, password, FALSE, NoValue))
        id == Len(created)
        saved == Save(created, id, SetOtp(created[id], otp, t))
        m == VerificationMail(email, otp, transport)
    IN
    IF existingUser # 0
    THEN Outcome(store, ErrorResponse(400, "Email already registered"), NoMail)
    ELSE IF m.sent
    THEN Outcome(saved, sendTokenResponse(id, 201, TRUE), m)
    ELSE Outcome(store,
                 ErrorResponse(500, "Registration initiated but verification email could not be sent. Please try again or contact support."),
                 m)

\* POST /api/auth/register
register(store, t, name, email, password, k, transport) ==
    LET existingUser == FindByEmail(store, email)
        otp == GenerateOtp(k)
        created == Append(store, NewUser(name, email, password, FALSE, NoValue))
        id == Len(created)
        saved == Save(created, id, SetOtp(created[id], otp, t))
        m == VerificationMail(email, otp, transport)
    IN
    IF existingUser # 0
    THEN Outcome(store, ErrorResponse(400, "Email already registered"), NoMail)
    ELSE IF m.sent
    THEN Outcome(saved, sendTokenResponse(id, 201, TRUE), m)
    ELSE Outcome(Save(saved, id, ClearOtp(saved[id])),
                 ErrorResponse(500, "Registration initiated but verification email could not be sent. Please try again or contact support."),
                 m)

\* mutant of login: the verification state is looked at before the password
login_VerificationBeforePassword(store, t, email, password, k, transport) ==
    LET id == FindByEmail(store, email)
        user == store[id]
        otp == GenerateOtp(k)
    IN
    IF email = NoValue \/ password = NoValue
    THEN Outcome(store, ErrorResponse(400, "Please provide an email and password"), NoMail)
    ELSE IF id = 0
    THEN Outcome(store, ErrorResponse(401, "Invalid credentials"), NoMail)
    ELSE IF ~user.isEmailVerified
    THEN Outcome(Save(store, id, SetOtp(user, otp, t)),
                 sendTokenResponse(id, 200, TRUE),
                 VerificationMail(user.email, otp, transport))
    ELSE IF ~MatchPassword(user, password)
    THEN Outcome(store, ErrorResponse(401, "Invalid credentials"), NoMail)
    ELSE Outcome(store, sendTokenResponse(id, 200, FALSE), NoMail)

\* POST /api/auth/login
login(store, t, email, password, k, transport) ==
    LET id == FindByEmail(store, email)
        user == store[id]
        otp == GenerateOtp(k)
    IN
    IF email = NoValue \/ password = NoValue
    THEN Outcome(store, ErrorResponse(400, "Please provide an email and password"), NoMail)
    ELSE IF id = 0
    THEN Outcome(store, ErrorResponse(401, "Invalid credentials"), NoMail)
    ELSE IF ~MatchPassword(user, password)
    THEN Outcome(store, ErrorResponse(401, "Invalid credentials"), NoMail)
    ELSE IF ~user.isEmailVerified
    THEN \* a failure of the mail is caught and logged: "Continue even if email fails"
         Outcome(Save(store, id, SetOtp(user, otp, t)),
                 sendTokenResponse(id, 200, TRUE),
                 VerificationMail(user.email, otp, transport))
    ELSE Outcome(store, sendTokenResponse(id, 200, FALSE), NoMail)

\* mutant of forgotPassword: a failed mail is logged and answered like a sent one
forgotPassword_SwallowMailError(store, t, email, resetToken, transport) ==
    LET id == FindByEmail(store, email)
        user == store[id]
        pending == SetResetToken(user, resetToken, t)
        m == PasswordResetMail(user.email, resetToken, transport)
    IN
    IF id = 0
    THEN Outcome(store, ErrorResponse(404, "There is no user with that email"), NoMail)
    ELSE IF m.sent
    THEN Outcome(Save(store, id, pending), DataResponse("Email sent"), m)
    ELSE Outcome(Save(store, id, ClearResetToken(pending)), DataResponse("Email sent"), m)

\* mutant of forgotPassword: an unknown address is answered like a known one
forgotPassword_HidesUnknown(store, t, email, resetToken, transport) ==
    LET id == FindByEmail(store, email)
        user == store[id]
        pending == SetResetToken(user, resetToken, t)
        m == PasswordResetMail(user.email, resetToken, transport)
    IN
    IF id = 0
    THEN Outcome(store, DataResponse("Email sent"), NoMail)
    ELSE IF m.sent
    THEN Outcome(Save(store, id, pending), DataResponse("Email sent"), m)
    ELSE Outcome(Save(store, id, ClearResetToken(pending)),
                 ErrorResponse(500, "Email could not be sent"), m)

\* POST /api/auth/forgotpassword
forgotPassword(store, t, email, resetToken, transport) ==
    LET id == FindByEmail(store, email)
        user == store[id]
        pending == SetResetToken(user, resetToken, t)
        m == PasswordResetMail(user.email, resetToken, transport)
    IN
    IF id = 0
    THEN Outcome(store, ErrorResponse(404, "There is no user with that email"), NoMail)
    ELSE IF m.sent
    THEN Outcome(Save(store, id, pending), DataResponse("Email sent"), m)
    ELSE Outcome(Save(store, id, ClearResetToken(pending)),
                 ErrorResponse(500, "Email could not be sent"), m)

\* mutant of resetPassword: the password is set and the token is left in place
resetPassword_KeepToken(store, t, resettoken, password) ==
    LET resetPasswordToken == Sha256(resettoken)
        id == FindByResetToken(store, resetPasswordToken, t)
        user == store[id]
    IN
    IF id = 0
    THEN Outcome(store, ErrorResponse(400, "Invalid token"), NoMail)
    ELSE Outcome(Save(store, id, [ user EXCEPT !.password = HashPassword(password) ]),
                 sendTokenResponse(id, 200, FALSE), NoMail)

\* PUT /api/auth/resetpassword/:resettoken
resetPassword(store, t, resettoken, password) ==
    LET resetPasswordToken == Sha256(resettoken)
        id == FindByResetToken(store, resetPasswordToken, t)
        user == store[id]
    IN
    IF id = 0
    THEN Outcome(store, ErrorResponse(400, "Invalid token"), NoMail)
    ELSE Outcome(Save(store, id,
                      ClearResetToken([ user EXCEPT !.password = HashPassword(password) ])),
                 sendTokenResponse(id, 200, FALSE), NoMail)

\* mutant of googleAuth: linking a Google id verifies the stored user
googleAuth_VerifiesOnLink(store, email, name, googleId) ==
    LET id == FindByEmail(store, email)
        user == store[id]
        created == Append(store, NewUser(name, email, RandomPassword, TRUE, googleId))
    IN
    IF email = NoValue \/ name = NoValue \/ googleId = NoValue
    THEN Outcome(store, ErrorResponse(400, "Please provide email, name, and googleId"), NoMail)
    ELSE IF id # 0
    THEN Outcome(IF user.googleId = NoValue
                 THEN Save(store, id, [ user EXCEPT !.googleId = googleId,
                                                    !.isEmailVerified = TRUE ])
                 ELSE store,
                 sendTokenResponse(id, 200, FALSE), NoMail)
    ELSE Outcome(created, sendTokenResponse(Len(created), 200, FALSE), NoMail)

\* POST /api/auth/google
googleAuth(store, email, name, googleId) ==
    LET id == FindByEmail(store, email)
        user == store[id]
        created == Append(store, NewUser(name, email, RandomPassword, TRUE, googleId))
    IN
    IF email = NoValue \/ name = NoValue \/ googleId = NoValue
    THEN Outcome(store, ErrorResponse(400, "Please provide email, name, and googleId"), NoMail)
    ELSE IF id # 0
    THEN Outcome(IF user.googleId = NoValue
                 THEN Save(store, id, [ user EXCEPT !.googleId = googleId ])
                 ELSE store,
                 sendTokenResponse(id, 200, FALSE), NoMail)
    ELSE Outcome(created, sendTokenResponse(Len(created), 200, FALSE), NoMail)

\* mutant of verifyEmail: the OTP is left in the document it verified
verifyEmail_KeepsOtp(store, t, email, otp) ==
    LET id == FindByOtp(store, email, otp, t)
        user == store[id]
    IN
    IF email = NoValue \/ otp = NoOtp
    THEN Outcome(store, ErrorResponse(400, "Please provide email and OTP"), NoMail)
    ELSE IF id = 0
    THEN Outcome(store, ErrorResponse(400, "Invalid or expired OTP"), NoMail)
    ELSE Outcome(Save(store, id, [ user EXCEPT !.isEmailVerified = TRUE ]),
                 [ NoRes EXCEPT !.status = 200, !.success = TRUE,
                                !.message = "Account created successfully! Email verified.",
                                !.token = id, !.user = id ],
                 NoMail)

\* POST /api/auth/verify-email
verifyEmail(store, t, email, otp) ==
    LET id == FindByOtp(store, email, otp, t)
        user == store[id]
    IN
    IF email = NoValue \/ otp = NoOtp
    THEN Outcome(store, ErrorResponse(400, "Please provide email and OTP"), NoMail)
    ELSE IF id = 0
    THEN Outcome(store, ErrorResponse(400, "Invalid or expired OTP"), NoMail)
    ELSE Outcome(Save(store, id, ClearOtp([ user EXCEPT !.isEmailVerified = TRUE ])),
                 [ NoRes EXCEPT !.status = 200, !.success = TRUE,
                                !.message = "Account created successfully! Email verified.",
                                !.token = id, !.user = id ],
                 NoMail)

\* mutant of sendVerificationOTP: the pending OTP survives a failed mail
sendVerificationOTP_NoRollback(store, t, email, k, transport) ==
    LET id == FindByEmail(store, email)
        user == store[id]
        otp == GenerateOtp(k)
        pending == SetOtp(user, otp, t)
        m == VerificationMail(user.email, otp, transport)
    IN
    IF email = NoValue
    THEN Outcome(store, ErrorResponse(400, "Please provide an email"), NoMail)
    ELSE IF id = 0
    THEN Outcome(store, ErrorResponse(404, "User not found"), NoMail)
    ELSE IF m.sent
    THEN Outcome(Save(store, id, pending), DataResponse("Verification email sent"), m)
    ELSE Outcome(Save(store, id, pending),
                 ErrorResponse(500, "Email could not be sent. Please check server logs."), m)

\* POST /api/auth/send-verification-otp
sendVerificationOTP(store, t, email, k, transport) ==
    LET id == FindByEmail(store, email)
        user == store[id]
        otp == GenerateOtp(k)
        pending == SetOtp(user, otp, t)
        m == VerificationMail(user.email, otp, transport)
    IN
    IF email = NoValue
    THEN Outcome(store, ErrorResponse(400, "Please provide an email"), NoMail)
    ELSE IF id = 0
    THEN Outcome(store, ErrorResponse(404, "User not found"), NoMail)
    ELSE IF m.sent
    THEN Outcome(Save(store, id, pending), DataResponse("Verification email sent"), m)
    ELSE Outcome(Save(store, id, ClearOtp(pending)),
                 ErrorResponse(500, "Email could not be sent. Please check server logs."), m)

----------------------------------------------------------------------------
(* Authentication middleware (middleware/auth.js) and the routes it guards *)

\* user.getSignedJwtToken(): the token sendTokenResponse hands out carries the
\* _id of the user, signed with JWT_SECRET; -id stands for a token of the same
\* payload that JWT_SECRET did not sign
JwtSign(id) == id

\* jwt.verify(token, process.env.JWT_SECRET) returns the payload of a token
\* signed with the secret and throws on anything else, undefined included
JwtVerifies(token) == token > 0
JwtDecode(token) == [ id |-> token ]

\* User.findById(id): the _id of the document, 0 (null) if none is stored
FindById(store, id) == IF id \in 1 .. Len(store) THEN id ELSE 0

\* authorization.startsWith('Bearer'), on the first word of the header
StartsWithBearer(scheme) == scheme \in {"Bearer", "BearerX"}

\* req.headers.authorization && req.headers.authorization.startsWith('Bearer')
HasBearer(authorization) ==
    authorization.scheme # NoValue /\ StartsWithBearer(authorization.scheme)

\* what a middleware or a route leaves behind: the store, the response, the
\* mail, and what happened to next and req.user
Passed(store, response, message, ch) ==
    [ users |-> store, res |-> response, mail |-> message, chain |-> ch ]

\* mutant of protect: the token is taken from a header of any scheme
protect_AnyScheme(store, authorization, findThrows) ==
    LET token == authorization.token
        unauthorized == ErrorResponse(401, "Not authorized to access this route")
        user == FindById(store, JwtDecode(token).id)
    IN IF token = 0
       THEN Passed(store, unauthorized, NoMail, NoChain)
       ELSE IF ~JwtVerifies(token) \/ findThrows
       THEN Passed(store, unauthorized, NoMail, NoChain)
       ELSE IF user = 0
       THEN Passed(store, ErrorResponse(401, "User not found"), NoMail,
                   [ NoChain EXCEPT !.assigned = TRUE ])
       ELSE Passed(store, NoRes, NoMail,
                   [ NoChain EXCEPT !.assigned = TRUE, !.user = user, !.next = 1 ])

\* exports.protect; findThrows: User.findById throws, which the catch turns
\* into the same 401 as a token that does not verify
protect(store, authorization, findThrows) ==
    LET token == IF HasBearer(authorization) THEN authorization.token ELSE 0
        unauthorized == ErrorResponse(401, "Not authorized to access this route")
        user == FindById(store, JwtDecode(token).id)
    IN IF token = 0
       THEN Passed(store, unauthorized, NoMail, NoChain)
       ELSE IF ~JwtVerifies(token) \/ findThrows
       THEN Passed(store, unauthorized, NoMail, NoChain)
       ELSE IF user = 0
       THEN Passed(store, ErrorResponse(401, "User not found"), NoMail,
                   [ NoChain EXCEPT !.assigned = TRUE ])
       ELSE Passed(store, NoRes, NoMail,
                   [ NoChain EXCEPT !.assigned = TRUE, !.user = user, !.next = 1 ])

\* mutant of optionalAuth: a Bearer token that does not verify is rejected
optionalAuth_Rejects(store, authorization, findThrows) ==
    LET token == authorization.token
    IN IF HasBearer(authorization) /\ JwtVerifies(token) /\ ~findThrows
       THEN Passed(store, NoRes, NoMail,
                   [ NoChain EXCEPT !.assigned = TRUE, !.next = 1,
                                    !.user = FindById(store, JwtDecode(token).id) ])
       ELSE IF HasBearer(authorization)
       THEN Passed(store, ErrorResponse(401, "Not authorized to access this route"),
                   NoMail, NoChain)
       ELSE Passed(store, NoRes, NoMail, [ NoChain EXCEPT !.next = 1 ])

\* exports.optionalAuth: whatever jwt.verify or User.findById throws is caught
\* and logged, and next() follows in every case
optionalAuth(store, authorization, findThrows) ==
    LET token == authorization.token
    IN IF HasBearer(authorization) /\ JwtVerifies(token) /\ ~findThrows
       THEN Passed(store, NoRes, NoMail,
                   [ NoChain EXCEPT !.assigned = TRUE, !.next = 1,
                                    !.user = FindById(store, JwtDecode(token).id) ])
       ELSE Passed(store, NoRes, NoMail, [ NoChain EXCEPT !.next = 1 ])

\* mutant of emailVerified: the test of isEmailVerified is dropped
emailVerified_NoCheck(store, ch) ==
    Passed(store, NoRes, NoMail, [ ch EXCEPT !.next = @ + 1 ])

\* exports.emailVerified, behind a middleware that left req.user = ch.user
emailVerified(store, ch) ==
    IF ~store[ch.user].isEmailVerified
    THEN Passed(store, [ ErrorResponse(403, "Email verification required")
                           EXCEPT !.verificationNeeded = "true" ], NoMail, ch)
    ELSE Passed(store, NoRes, NoMail, [ ch EXCEPT !.next = @ + 1 ])

\* exports.getMe, behind protect: User.findById(req.user.id), data: user
getMe(store, ch, findThrows) ==
    IF findThrows
    THEN Passed(store, NoRes, NoMail, [ ch EXCEPT !.err = @ + 1 ])
    ELSE Passed(store, DataResponse("user"), NoMail, ch)

\* GET /api/auth/me: protect, getMe.  n is the store operation of the request
\* that throws, counted from 1 (0: none does)
getMeRoute(store, authorization, n) ==
    LET p == protect(store, authorization, n = 1)
    IN IF p.chain.next = 0 THEN p ELSE getMe(store, p.chain, n = 2)

\* a route guarded by protect, emailVerified: the route's own handler is
\* reached when next has been called twice
verifiedRoute(store, authorization, n) ==
    LET p == protect(store, authorization, n = 1)
    IN IF p.chain.next = 0 THEN p ELSE emailVerified(store, p.chain)

\* a route behind optionalAuth
optionalRoute(store, authorization, n) == optionalAuth(store, authorization, n = 1)

----------------------------------------------------------------------------
(* Store operations that throw.  For each handler, the operations it awaits  *)
(* on the store along the path its inputs take, in order: each entry is the  *)
(* store as persisted, and the mail attempted, when that operation starts.   *)

Op(store, message) == [ users |-> store, mail |-> message ]

\* register: User.findOne, User.create, user.save, and the user.save of the
\* inner catch when the mail failed
registerStoreOps(store, t, name, email, password, k, transport) ==
    LET otp == GenerateOtp(k)
        created == Append(store, NewUser(name, email, password, FALSE, NoValue))
        id == Len(created)
        saved == Save(created, id, SetOtp(created[id], otp, t))
        m == VerificationMail(email, otp, transport)
    IN IF FindByEmail(store, email) # 0
       THEN << Op(store, NoMail) >>
       ELSE << Op(store, NoMail), Op(store, NoMail), Op(created, NoMail) >>
            \o (IF m.sent THEN << >> ELSE << Op(saved, m) >>)

\* mutant of loginStoreOps: the user is looked up before the body is checked
loginStoreOps_FindFirst(store, t, email, password, k, transport) ==
    LET id == FindByEmail(store, email)
    IN IF email = NoValue \/ password = NoValue
       THEN << Op(store, NoMail) >>
       ELSE IF id = 0 \/ ~MatchPassword(store[id], password) \/ store[id].isEmailVerified
       THEN << Op(store, NoMail) >>
       ELSE << Op(store, NoMail), Op(store, NoMail) >>

\* login: User.findOne, and user.save for a user who is not verified
loginStoreOps(store, t, email, password, k, transport) ==
    LET id == FindByEmail(store, email)
    IN IF email = NoValue \/ password = NoValue
       THEN << >>
       ELSE IF id = 0 \/ ~MatchPassword(store[id], password) \/ store[id].isEmailVerified
       THEN << Op(store, NoMail) >>
       ELSE << Op(store, NoMail), Op(store, NoMail) >>

\* forgotPassword: User.findOne, user.save, and the user.save of the inner catch
forgotPasswordStoreOps(store, t, email, resetToken, transport) ==
    LET id == FindByEmail(store, email)
        m == PasswordResetMail(store[id].email, resetToken, transport)
    IN IF id = 0
       THEN << Op(store, NoMail) >>
       ELSE << Op(store, NoMail), Op(store, NoMail) >>
            \o (IF m.sent THEN << >>
                ELSE << Op(Save(store, id, SetResetToken(store[id], resetToken, t)), m) >>)

\* resetPassword: User.findOne, user.save
resetPasswordStoreOps(store, t, resettoken, password) ==
    IF FindByResetToken(store, Sha256(resettoken), t) = 0
    THEN << Op(store, NoMail) >>
    ELSE << Op(store, NoMail), Op(store, NoMail) >>

\* googleAuth: User.findOne, then user.save to link a Google id or User.create
googleAuthStoreOps(store, email, name, googleId) ==
    LET id == FindByEmail(store, email)
    IN IF email = NoValue \/ name = NoValue \/ googleId = NoValue
       THEN << >>
       ELSE IF id # 0 /\ store[id].googleId # NoValue
       THEN << Op(store, NoMail) >>
       ELSE << Op(store, NoMail), Op(store, NoMail) >>

\* verifyEmail: User.findOne, user.save
verifyEmailStoreOps(store, t, email, otp) ==
    IF email = NoValue \/ otp = NoOtp
    THEN << >>
    ELSE IF FindByOtp(store, email, otp, t) = 0
    THEN << Op(store, NoMail) >>
    ELSE << Op(store, NoMail), Op(store, NoMail) >>

\* sendVerificationOTP: User.findOne, user.save, and the user.save of the inner catch
sendVerificationOTPStoreOps(store, t, email, k, transport) ==
    LET id == FindByEmail(store, email)
        otp == GenerateOtp(k)
        m == VerificationMail(store[id].email, otp, transport)
    IN IF email = NoValue
       THEN << >>
       ELSE IF id = 0
       THEN << Op(store, NoMail) >>
       ELSE << Op(store, NoMail), Op(store, NoMail) >>
            \o (IF m.sent THEN << >>
                ELSE << Op(Save(store, id, SetOtp(store[id], otp, t)), m) >>)

\* mutant of Throwing: the response of the handler is sent all the same
Throwing_AnswersToo(ops, n, out) ==
    IF n \in 1 .. Len(ops)
    THEN Passed(ops[n].users, out.res, ops[n].mail, [ NoChain EXCEPT !.err = 1 ])
    ELSE Passed(out.users, out.res, out.mail, NoChain)

\* every handler is one try block whose catch is next(err): when the n-th
\* operation on the store throws, what was persisted before it stays, nothing
\* is sent, and next receives the error; otherwise the handler ends as out
Throwing(ops, n, out) ==
    IF n \in 1 .. Len(ops)
    THEN Passed(ops[n].users, NoRes, ops[n].mail, [ NoChain EXCEPT !.err = 1 ])
    ELSE Passed(out.users, out.res, out.mail, NoChain)

----------------------------------------------------------------------------
(* History: when the pending OTP and reset token of each document were stored *)

NeverIssued == [ otp |-> Undefined, token |-> Undefined ]

OtpFields(d) == <<d.emailVerificationOTP, d.emailVerificationExpire>>
ResetFields(d) == <<d.resetPasswordToken, d.resetPasswordExpire>>

\* a request that ends with a pending OTP (reset token) it wrote stamps the
\* document with the time of the request
Stamp(hist, old, new, t) ==
    [ i \in 1 .. Len(new) |->
        LET prev == IF i <= Len(hist) THEN hist[i] ELSE NeverIssued
            fresh == i > Len(old)
        IN [ otp |-> IF /\ new[i].emailVerificationOTP # NoOtp
                        /\ (fresh \/ OtpFields(new[i]) # OtpFields(old[i]))
                     THEN t ELSE prev.otp,
             token |-> IF /\ new[i].resetPasswordToken # Undefined
                          /\ (fresh \/ ResetFields(new[i]) # ResetFields(old[i]))
                       THEN t ELSE prev.token ] ]

\* once the request is over, nothing is remembered of a code no longer stored
Forget(hist, store) ==
    [ i \in 1 .. Len(store) |->
        [ otp |-> IF store[i].emailVerificationOTP = NoOtp THEN Undefined ELSE hist[i].otp,
          token |-> IF store[i].resetPasswordToken = Undefined THEN Undefined
                    ELSE hist[i].token ] ]

----------------------------------------------------------------------------
(* Trail of the password resets: spent holds the reset tokens a resetPassword *)
(* has succeeded with and no forgotPassword has mailed since; reset holds,    *)
(* per document, the password its last successful resetPassword set and the   *)
(* stored password it replaced.                                               *)

NoReset == [ old |-> << >>, new |-> NoValue ]
NoTrail == [ spent |-> {}, reset |-> << >> ]

ResetOf(tr, i) == IF i \in 1 .. Len(tr.reset) THEN tr.reset[i] ELSE NoReset

\* the trail after the request request, answered response with the mail
\* message, on the store old that it left as new
Track(tr, request, response, message, old, new) ==
    LET padded == [ i \in 1 .. Len(new) |-> ResetOf(tr, i) ]
    IN IF request.op = "resetPassword" /\ response.success
       THEN [ spent |-> tr.spent \cup {request.resettoken},
              reset |-> [ padded EXCEPT ![response.user] =
                            [ old |-> old[response.user].password,
                              new |-> request.password ] ] ]
       ELSE IF request.op = "forgotPassword" /\ response.success
       THEN [ spent |-> tr.spent \ {message.resetToken}, reset |-> padded ]
       ELSE [ spent |-> tr.spent, reset |-> padded ]

----------------------------------------------------------------------------
(* History of the OTPs of each document: the one stored last and when, the   *)
(* one stored before it (while it differs and its own 10 minutes last), the  *)
(* OTPs a verifyEmail ever succeeded with, and those among them that have    *)
(* not been issued again since.                                              *)

NoCodes == [ prev |-> NoOtp, spent |-> {}, latest |-> NoOtp, latestAt |-> Undefined,
             prevAt |-> Undefined, ever |-> {} ]

CodesOf(cd, i) == IF i \in 1 .. Len(cd) THEN cd[i] ELSE NoCodes

\* the history after the request request, answered response with the mail
\* message at time t, on the store it left as new.  A handler that stores an
\* OTP always tries to mail it, to the address of the document
TrackCodes(cd, request, response, message, new, t) ==
    [ i \in 1 .. Len(new) |->
        LET c == CodesOf(cd, i)
            keepPrev == /\ c.latest # NoOtp
                        /\ c.latest # message.otp
                        /\ t < c.latestAt + OtpTtl
        IN IF message.kind = "otp" /\ new[i].email = message.to
           THEN [ prev |-> IF keepPrev THEN c.latest ELSE NoOtp, spent |-> c.spent \ {message.otp},
                  latest |-> message.otp,
                  latestAt |-> t,
                  prevAt |-> IF keepPrev THEN c.latestAt ELSE Undefined, ever |-> c.ever ]
           ELSE IF request.op = "verifyEmail" /\ response.success /\ response.user = i
           THEN [ c EXCEPT !.ever = @ \cup {request.otp},
                           !.spent = @ \cup {request.otp} ]
           ELSE c ]

----------------------------------------------------------------------------
(* Handlers that interleave.  Node runs a handler up to its next await and   *)
(* may then run another request: a request in progress is a record with its  *)
(* inputs, the await it stands at (pc), and its local variables: id, the     *)
(* document findOne or create returned, and the response status.  save()     *)
(* writes the paths the handler assigned, whatever the store holds then.      *)

\* the requests that may be in progress together
Slots == {"r1", "r2"}

\* code is the OTP the handler generated, resettoken the token of the URL
\* (resetPassword) or the one the handler generated (forgotPassword);
\* wipedOtp and wipedToken are what the store held where the save of the
\* handler's inner catch unset it, held whether the store still held the
\* handler's code or token when its mail was sent
NoProc == [ password |-> NoValue, email |-> NoValue, name |-> NoValue, googleId |-> NoValue,
            op |-> "none", resettoken |-> 0,
            status |-> 0, sent |-> FALSE, code |-> NoOtp,
            id |-> 0, transport |-> "ok", pc |-> "idle", held |-> FALSE,
            wipedOtp |-> NoOtp, wipedToken |-> Undefined ]

\* one step of a handler: the store and the request after it
Stepped(store, p) == [ users |-> store, proc |-> p ]

\* res.status(code).json(..) and return
Answered(store, p, code) == Stepped(store, [ p EXCEPT !.status = code, !.pc = "done" ])

\* await User.findOne(..) / User.create(..): the handler holds the document
Found(store, p, id, pc) == Stepped(store, [ p EXCEPT !.id = id, !.pc = pc ])

\* user.emailVerificationOTP = otp; user.emailVerificationExpire = ..; await user.save()
SaveOtp(store, p, t) ==
    [ store EXCEPT ![p.id].emailVerificationOTP = p.code,
                   ![p.id].emailVerificationExpire = t + OtpTtl ]

\* both set to undefined in the inner catch; await user.save()
UnsetOtp(store, p) ==
    [ store EXCEPT ![p.id].emailVerificationOTP = NoOtp,
                   ![p.id].emailVerificationExpire = Undefined ]

\* await sendVerificationOTP(..) / sendPasswordResetEmail(..): the response of
\* the inner try when the mail is sent, the inner catch when it throws
Mailing(store, p, sentStatus) ==
    IF p.transport = "ok"
    THEN Answered(store,
                  [ p EXCEPT !.sent = TRUE,
                             !.held = IF p.op = "forgotPassword"
                                      THEN store[p.id].resetPasswordToken = Sha256(p.resettoken)
                                      ELSE store[p.id].emailVerificationOTP = p.code ],
                  sentStatus)
    ELSE Stepped(store, [ p EXCEPT !.pc = "rollback" ])

\* register, from await to await
registerStep(store, t, p) ==
    CASE p.pc = "find" ->
           IF FindByEmail(store, p.email) # 0
           THEN Answered(store, p, 400)
           ELSE Stepped(store, [ p EXCEPT !.pc = "create" ])
      [] p.pc = "create" ->
           LET created == Append(store, NewUser(p.name, p.email, p.password, FALSE, NoValue))
           IN Found(created, p, Len(created), "save")
      [] p.pc = "save" -> Stepped(SaveOtp(store, p, t), [ p EXCEPT !.pc = "mail" ])
      [] p.pc = "mail" -> Mailing(store, p, 201)
      [] p.pc = "rollback" ->
           Answered(UnsetOtp(store, p),
                    [ p EXCEPT !.wipedOtp = store[p.id].emailVerificationOTP ], 500)

\* forgotPassword, from await to await
forgotPasswordStep(store, t, p) ==
    CASE p.pc = "find" ->
           LET id == FindByEmail(store, p.email)
           IN IF id = 0 THEN Answered(store, p, 404) ELSE Found(store, p, id, "save")
      [] p.pc = "save" ->
           Stepped([ store EXCEPT ![p.id].resetPasswordToken = Sha256(p.resettoken),
                                  ![p.id].resetPasswordExpire = t + ResetTtl ],
                   [ p EXCEPT !.pc = "mail" ])
      [] p.pc = "mail" -> Mailing(store, p, 200)
      [] p.pc = "rollback" ->
           Answered([ store EXCEPT ![p.id].resetPasswordToken = Undefined,
                                   ![p.id].resetPasswordExpire = Undefined ],
                    [ p EXCEPT !.wipedToken = store[p.id].resetPasswordToken ], 500)

\* resetPassword, from await to await
resetPasswordStep(store, t, p) ==
    CASE p.pc = "find" ->
           LET id == FindByResetToken(store, Sha256(p.resettoken), t)
           IN IF id = 0 THEN Answered(store, p, 400) ELSE Found(store, p, id, "save")
      [] p.pc = "save" ->
           Answered([ store EXCEPT ![p.id].password = HashPassword(p.password),
                                   ![p.id].resetPasswordToken = Undefined,
                                   ![p.id].resetPasswordExpire = Undefined ],
                    p, 200)

\* googleAuth, from await to await
googleAuthStep(store, t, p) ==
    CASE p.pc = "find" ->
           LET id == FindByEmail(store, p.email)
           IN IF id = 0 THEN Stepped(store, [ p EXCEPT !.pc = "create" ])
              ELSE IF store[id].googleId = NoValue THEN Found(store, p, id, "save")
              ELSE Answered(store, [ p EXCEPT !.id = id ], 200)
      [] p.pc = "save" ->
           Answered([ store EXCEPT ![p.id].googleId = p.googleId ], p, 200)
      [] p.pc = "create" ->
           LET created == Append(store, NewUser(p.name, p.email, RandomPassword, TRUE,
                                                p.googleId))
           IN Answered(created, [ p EXCEPT !.id = Len(created) ], 200)

\* sendVerificationOTP, from await to await
sendVerificationOTPStep(store, t, p) ==
    CASE p.pc = "find" ->
           LET id == FindByEmail(store, p.email)
           IN IF id = 0 THEN Answered(store, p, 404) ELSE Found(store, p, id, "save")
      [] p.pc = "save" -> Stepped(SaveOtp(store, p, t), [ p EXCEPT !.pc = "mail" ])
      [] p.pc = "mail" -> Mailing(store, p, 200)
      [] p.pc = "rollback" ->
           Answered(UnsetOtp(store, p),
                    [ p EXCEPT !.wipedOtp = store[p.id].emailVerificationOTP ], 500)

----------------------------------------------------------------------------
(* Initial state: an empty store, no request handled yet *)

Init ==
    /\ users = << >>
    /\ now = 0
    /\ req = NoReq
    /\ res = NoRes
    /\ mail = NoMail
    /\ before = << >>
    /\ issuedAt = << >>
    /\ chain = NoChain
    /\ trail = NoTrail
    /\ codes = << >>
    /\ call = NoCall
    /\ procs = [ s \in Slots |-> NoProc ]

\* no request is being answered
Idle == req.op = "none"

----------------------------------------------------------------------------
(* Actions: one request is handled from its arrival to its response *)

Answer(request, out) ==
    /\ Idle
    /\ req' = request
    /\ users' = out.users
    /\ res' = out.res
    /\ mail' = out.mail
    /\ before' = users
    /\ issuedAt' = Stamp(issuedAt, users, out.users, now)
    /\ chain' = NoChain
    /\ UNCHANGED <<now, trail, codes, call, procs>>

PostRegister(name, email, password, k, transport) ==
    Answer([ NoReq EXCEPT !.op = "register", !.name = name, !.email = email,
                          !.password = password ],
           register(users, now, name, email, password, k, transport))

PostLogin(email, password, k, transport) ==
    Answer([ NoReq EXCEPT !.op = "login", !.email = email, !.password = password ],
           login(users, now, email, password, k, transport))

PostForgotPassword(email, resetToken, transport) ==
    Answer([ NoReq EXCEPT !.op = "forgotPassword", !.email = email ],
           forgotPassword(users, now, email, resetToken, transport))

PutResetPassword(resettoken, password) ==
    Answer([ NoReq EXCEPT !.op = "resetPassword", !.resettoken = resettoken,
                          !.password = password ],
           resetPassword(users, now, resettoken, password))

PostGoogle(email, name, googleId) ==
    Answer([ NoReq EXCEPT !.op = "googleAuth", !.email = email, !.name = name,
                          !.googleId = googleId ],
           googleAuth(users, email, name, googleId))

PostVerifyEmail(email, otp) ==
    Answer([ NoReq EXCEPT !.op = "verifyEmail", !.email = email, !.otp = otp ],
           verifyEmail(users, now, email, otp))

PostSendVerificationOtp(email, k, transport) ==
    Answer([ NoReq EXCEPT !.op = "sendVerificationOTP", !.email = email ],
           sendVerificationOTP(users, now, email, k, transport))

\* the response has left and the handler has returned: the server is idle again
Respond ==
    /\ ~Idle
    /\ req' = NoReq
    /\ res' = NoRes
    /\ mail' = NoMail
    /\ before' = << >>
    /\ issuedAt' = Forget(issuedAt, users)
    /\ chain' = NoChain
    /\ UNCHANGED <<users, now, trail, codes, call, procs>>

\* the same, keeping the history of the OTPs
RespondCoded ==
    /\ ~Idle
    /\ req' = NoReq
    /\ res' = NoRes
    /\ mail' = NoMail
    /\ before' = << >>
    /\ issuedAt' = Forget(issuedAt, users)
    /\ chain' = NoChain
    /\ codes' = TrackCodes(codes, req, res, mail, users, now)
    /\ UNCHANGED <<users, now, trail, call, procs>>

\* the same, keeping the trail of the request that ends
RespondTracked ==
    /\ ~Idle
    /\ req' = NoReq
    /\ res' = NoRes
    /\ mail' = NoMail
    /\ before' = << >>
    /\ issuedAt' = Forget(issuedAt, users)
    /\ chain' = NoChain
    /\ trail' = Track(trail, req, res, mail, before, users)
    /\ UNCHANGED <<users, now, codes, call, procs>>

\* the clock advances to a later instant between two requests
Tick ==
    /\ Idle
    /\ \E t \in Instants : t > now /\ now' = t
    /\ UNCHANGED <<users, req, res, mail, before, issuedAt, chain, trail, codes, call, procs>>

----------------------------------------------------------------------------
(* The same requests on a store whose operations may throw, and the routes   *)
(* behind the authentication middleware                                      *)

Handle(request, out) ==
    /\ Idle
    /\ req' = request
    /\ users' = out.users
    /\ res' = out.res
    /\ mail' = out.mail
    /\ before' = users
    /\ issuedAt' = Stamp(issuedAt, users, out.users, now)
    /\ chain' = out.chain
    /\ UNCHANGED <<now, trail, codes, call, procs>>

FaultyRegister(name, email, password, k, transport, n) ==
    Handle([ NoReq EXCEPT !.op = "register", !.name = name, !.email = email,
                          !.password = password, !.storeFault = n ],
           Throwing(registerStoreOps(users, now, name, email, password, k, transport), n,
                    register(users, now, name, email, password, k, transport)))

FaultyLogin(email, password, k, transport, n) ==
    Handle([ NoReq EXCEPT !.op = "login", !.email = email, !.password = password,
                          !.storeFault = n ],
           Throwing(loginStoreOps(users, now, email, password, k, transport), n,
                    login(users, now, email, password, k, transport)))

FaultyForgotPassword(email, resetToken, transport, n) ==
    Handle([ NoReq EXCEPT !.op = "forgotPassword", !.email = email, !.storeFault = n ],
           Throwing(forgotPasswordStoreOps(users, now, email, resetToken, transport), n,
                    forgotPassword(users, now, email, resetToken, transport)))

FaultyResetPassword(resettoken, password, n) ==
    Handle([ NoReq EXCEPT !.op = "resetPassword", !.resettoken = resettoken,
                          !.password = password, !.storeFault = n ],
           Throwing(resetPasswordStoreOps(users, now, resettoken, password), n,
                    resetPassword(users, now, resettoken, password)))

FaultyGoogle(email, name, googleId, n) ==
    Handle([ NoReq EXCEPT !.op = "googleAuth", !.email = email, !.name = name,
                          !.googleId = googleId, !.storeFault = n ],
           Throwing(googleAuthStoreOps(users, email, name, googleId), n,
                    googleAuth(users, email, name, googleId)))

FaultyVerifyEmail(email, otp, n) ==
    Handle([ NoReq EXCEPT !.op = "verifyEmail", !.email = email, !.otp = otp,
                          !.storeFault = n ],
           Throwing(verifyEmailStoreOps(users, now, email, otp), n,
                    verifyEmail(users, now, email, otp)))

FaultySendVerificationOtp(email, k, transport, n) ==
    Handle([ NoReq EXCEPT !.op = "sendVerificationOTP", !.email = email,
                          !.storeFault = n ],
           Throwing(sendVerificationOTPStoreOps(users, now, email, k, transport), n,
                    sendVerificationOTP(users, now, email, k, transport)))

GetMe(authorization, n) ==
    Handle([ NoReq EXCEPT !.op = "getMe", !.authorization = authorization,
                          !.storeFault = n ],
           getMeRoute(users, authorization, n))

GetVerifiedRoute(authorization, n) ==
    Handle([ NoReq EXCEPT !.op = "verifiedRoute", !.authorization = authorization,
                          !.storeFault = n ],
           verifiedRoute(users, authorization, n))

GetOptionalRoute(authorization, n) ==
    Handle([ NoReq EXCEPT !.op = "optionalRoute", !.authorization = authorization,
                          !.storeFault = n ],
           optionalRoute(users, authorization, n))

----------------------------------------------------------------------------
(* What a client may put in a request *)

EmailInputs == Emails \cup {NoValue}
PasswordInputs == Passwords \cup {NoValue}
RandomSamples == 0 .. RandDen - 1
ResetTokens == 1 .. MaxToken
\* a reset token, the stored hash of one, or a token never issued
ResetTokenInputs == ResetTokens \cup {Sha256(t) : t \in ResetTokens} \cup {MaxToken + 1}
OtpInputs == {GenerateOtp(k) : k \in RandomSamples} \cup {NoOtp}

Next ==
    \/ \E n \in Names, e \in Registrants, p \in Passwords, k \in RandomSamples,
          tr \in Transports : PostRegister(n, e, p, k, tr)
    \/ \E e \in EmailInputs, p \in PasswordInputs, k \in RandomSamples,
          tr \in Transports : PostLogin(e, p, k, tr)
    \/ \E e \in Emails, t \in ResetTokens, tr \in Transports : PostForgotPassword(e, t, tr)
    \/ \E t \in ResetTokenInputs, p \in Passwords : PutResetPassword(t, p)
    \/ \E e \in Registrants \cup {NoValue}, n \in Names \cup {NoValue},
          g \in GoogleIds \cup {NoValue} : PostGoogle(e, n, g)
    \/ \E e \in EmailInputs, o \in OtpInputs : PostVerifyEmail(e, o)
    \/ \E e \in EmailInputs, k \in RandomSamples, tr \in Transports :
          PostSendVerificationOtp(e, k, tr)
    \/ Respond
    \/ Tick

Spec == Init /\ [][Next]_vars

\* the _ids a token may carry: those of the accounts, and one of no account
UserIds == 1 .. Cardinality(Registrants) + 1
\* a token signed for an _id, and one of the same payload signed otherwise
JwtInputs == {JwtSign(i) : i \in UserIds} \cup {0 - JwtSign(i) : i \in UserIds}
\* no header, or a scheme followed by a token or by nothing
HeaderInputs ==
    {NoHeader} \cup
    {[ scheme |-> s, token |-> tk ] : s \in {"Basic", "Bearer", "BearerX"},
                                     tk \in JwtInputs \cup {0}}
\* no operation on the store throws, or the n-th of the request does; no
\* request of the model awaits more than MaxStoreOps of them
MaxStoreOps == 4
StoreFaults == 0 .. MaxStoreOps

NextApi ==
    \/ \E n \in Names, e \in Registrants, p \in Passwords, k \in RandomSamples,
          tr \in Transports, f \in StoreFaults : FaultyRegister(n, e, p, k, tr, f)
    \/ \E e \in EmailInputs, p \in PasswordInputs, k \in RandomSamples,
          tr \in Transports, f \in StoreFaults : FaultyLogin(e, p, k, tr, f)
    \/ \E e \in Emails, t \in ResetTokens, tr \in Transports, f \in StoreFaults :
          FaultyForgotPassword(e, t, tr, f)
    \/ \E t \in ResetTokenInputs, p \in Passwords, f \in StoreFaults :
          FaultyResetPassword(t, p, f)
    \/ \E e \in Registrants \cup {NoValue}, n \in Names \cup {NoValue},
          g \in GoogleIds \cup {NoValue}, f \in StoreFaults : FaultyGoogle(e, n, g, f)
    \/ \E e \in EmailInputs, o \in OtpInputs, f \in StoreFaults : FaultyVerifyEmail(e, o, f)
    \/ \E e \in EmailInputs, k \in RandomSamples, tr \in Transports, f \in StoreFaults :
          FaultySendVerificationOtp(e, k, tr, f)
    \/ \E h \in HeaderInputs, f \in StoreFaults : GetMe(h, f)
    \/ \E h \in HeaderInputs, f \in StoreFaults : GetVerifiedRoute(h, f)
    \/ \E h \in HeaderInputs, f \in StoreFaults : GetOptionalRoute(h, f)
    \/ Respond

\* the handlers that read or write the password and the reset token of a
\* document created by register
NextReset ==
    \/ \E n \in Names, e \in Registrants, p \in Passwords, k \in RandomSamples,
          tr \in Transports : PostRegister(n, e, p, k, tr)
    \/ \E e \in EmailInputs, p \in PasswordInputs, k \in RandomSamples,
          tr \in Transports : PostLogin(e, p, k, tr)
    \/ \E e \in Emails, t \in ResetTokens, tr \in Transports : PostForgotPassword(e, t, tr)
    \/ \E t \in ResetTokenInputs, p \in Passwords : PutResetPassword(t, p)
    \/ RespondTracked
    \/ Tick

\* registration, login and password reset, with the trail of the resets kept
SpecReset == Init /\ [][NextReset]_vars

\* the handlers that store, clear or consume an OTP; the accounts register
\* with one password, the other one is a wrong password at login
NextVerify ==
    \/ \E n \in Names, e \in Registrants, k \in RandomSamples, tr \in Transports :
          PostRegister(n, e, "p1", k, tr)
    \/ \E e \in EmailInputs, p \in PasswordInputs, k \in RandomSamples,
          tr \in Transports : PostLogin(e, p, k, tr)
    \/ \E e \in EmailInputs, o \in OtpInputs : PostVerifyEmail(e, o)
    \/ \E e \in EmailInputs, k \in RandomSamples, tr \in Transports :
          PostSendVerificationOtp(e, k, tr)
    \/ RespondCoded
    \/ Tick

\* registration, login and e-mail verification, with the history of the OTPs
SpecVerify == Init /\ [][NextVerify]_vars

\* the controller and the middleware on a store that may fail, at one instant
SpecApi == Init /\ [][NextApi]_vars

----------------------------------------------------------------------------
(* Interleaved requests *)

OnlyProcs ==
    UNCHANGED <<now, req, res, mail, before, issuedAt, chain, trail, codes, call>>

\* a request arrives at a free slot; the responses of the requests that
\* ended have been taken away, so that the requests of two slots have
\* always been in progress together
Arrive(s, p) ==
    /\ procs[s].pc = "idle"
    /\ \A o \in Slots : procs[o].pc # "done"
    /\ procs' = [ procs EXCEPT ![s] = [ p EXCEPT !.pc = "find" ] ]
    /\ UNCHANGED users
    /\ OnlyProcs

\* the request of slot s, a request of handler op, runs to its next await
Run(s, op, stepped) ==
    /\ procs[s].op = op
    /\ procs[s].pc \notin {"idle", "done"}
    /\ users' = stepped.users
    /\ procs' = [ procs EXCEPT ![s] = stepped.proc ]
    /\ OnlyProcs

RunRegister(s) == Run(s, "register", registerStep(users, now, procs[s]))
RunForgotPassword(s) == Run(s, "forgotPassword", forgotPasswordStep(users, now, procs[s]))
RunResetPassword(s) == Run(s, "resetPassword", resetPasswordStep(users, now, procs[s]))
RunGoogle(s) == Run(s, "googleAuth", googleAuthStep(users, now, procs[s]))
RunSendVerificationOtp(s) ==
    Run(s, "sendVerificationOTP", sendVerificationOTPStep(users, now, procs[s]))

\* the response of an ended request is taken away
Leave(s) ==
    /\ procs[s].pc = "done"
    /\ procs' = [ procs EXCEPT ![s] = NoProc ]
    /\ UNCHANGED users
    /\ OnlyProcs

\* the requests that arrive: complete bodies, for the one address that
\* opens accounts
Arrivals ==
    {[ NoProc EXCEPT !.op = "register", !.name = "n", !.email = e, !.password = "p1",
                     !.code = GenerateOtp(k), !.transport = tr ] :
        e \in Registrants, k \in RandomSamples, tr \in {"ok", "sendFail"}}
    \cup {[ NoProc EXCEPT !.op = "forgotPassword", !.email = e, !.resettoken = t,
                          !.transport = tr ] :
        e \in Registrants, t \in ResetTokens, tr \in {"ok", "sendFail"}}
    \cup {[ NoProc EXCEPT !.op = "resetPassword", !.resettoken = t, !.password = "p2" ] :
        t \in ResetTokens}
    \cup {[ NoProc EXCEPT !.op = "googleAuth", !.name = "n", !.email = e,
                          !.googleId = "g1" ] : e \in Registrants}
    \cup {[ NoProc EXCEPT !.op = "sendVerificationOTP", !.email = e,
                          !.code = GenerateOtp(k), !.transport = tr ] :
        e \in Registrants, k \in RandomSamples, tr \in {"ok", "sendFail"}}

NextRace ==
    \/ \E s \in Slots, p \in Arrivals : Arrive(s, p)
    \/ \E s \in Slots : RunRegister(s)
    \/ \E s \in Slots : RunForgotPassword(s)
    \/ \E s \in Slots : RunResetPassword(s)
    \/ \E s \in Slots : RunGoogle(s)
    \/ \E s \in Slots : RunSendVerificationOtp(s)
    \/ \E s \in Slots : Leave(s)

\* the controller with the handlers of two requests interleaving at their awaits
SpecRace == Init /\ [][NextRace]_vars

----------------------------------------------------------------------------
(* Calls of the utilities, outside any request *)

OnlyCall ==
    UNCHANGED <<users, now, req, res, mail, before, issuedAt, chain, trail, codes, procs>>

\* the grids Math.random() is drawn from: a coarse one, the one on which
\* every OTP occurs, and the finest the checker's integers allow
RandomGrids == {RandFine, 900000, 2 ^ 29}
\* the values of Math.random(), all in [0, 1), as <<numerator, denominator>>
RandomValues ==
    {<<n, d>> : n \in 0 .. RandFine - 1, d \in RandomGrids}
    \cup {<<d - n, d>> : n \in 1 .. RandFine, d \in RandomGrids}

\* transporter.verify() resolves
Verifies(transport) == transport \in {"ok", "sendFail"}
\* transporter.sendMail(message) resolves: the transport accepts the message,
\* which has a recipient
Delivers(transport, to) == transport \in {"ok", "verifyOnlyFail"} /\ to # NoValue

\* how a call of a function of utils/email.js ends: whether it threw, whether
\* it called transporter.sendMail, and whether sendMail took the message
Thrown(sendMailCalled) ==
    [ sendMailCalled |-> sendMailCalled, threw |-> TRUE, handed |-> FALSE ]
Returned == [ sendMailCalled |-> TRUE, threw |-> FALSE, handed |-> TRUE ]

\* mutant of sendNoteEmail: the catch logs the error and returns
sendNoteEmail_SwallowsError(options, env, transport) ==
    IF \/ options.email = NoValue \/ options.note = NoValue
       \/ options.accessUrl = NoValue
       \/ env.EMAIL_USERNAME = NoValue \/ env.EMAIL_PASSWORD = NoValue
    THEN [ sendMailCalled |-> FALSE, threw |-> FALSE, handed |-> FALSE ]
    ELSE IF ~Delivers(transport, options.email)
    THEN [ sendMailCalled |-> TRUE, threw |-> FALSE, handed |-> FALSE ]
    ELSE Returned

\* exports.sendNoteEmail: the three checks of options and the check of the
\* credentials throw inside the try, sendMail is awaited without a verify,
\* and the catch logs and re-throws
sendNoteEmail(options, env, transport) ==
    IF options.email = NoValue THEN Thrown(FALSE)
    ELSE IF options.note = NoValue THEN Thrown(FALSE)
    ELSE IF options.accessUrl = NoValue THEN Thrown(FALSE)
    ELSE IF env.EMAIL_USERNAME = NoValue \/ env.EMAIL_PASSWORD = NoValue
    THEN Thrown(FALSE)
    ELSE IF ~Delivers(transport, options.email) THEN Thrown(TRUE)
    ELSE Returned

\* exports.sendPasswordResetEmail: verify, sendMail, and a catch that re-throws
sendPasswordResetEmail(options, env, transport) ==
    IF ~Verifies(transport) THEN Thrown(FALSE)
    ELSE IF ~Delivers(transport, options.email) THEN Thrown(TRUE)
    ELSE Returned

\* exports.sendVerificationOTP of utils/email.js: options.otp.toString()
\* throws on a missing otp; verify and sendMail sit in an inner try whose
\* catch re-throws, and the outer catch re-throws again
emailVerificationOTP(options, env, transport) ==
    IF options.otp = NoOtp THEN Thrown(FALSE)
    ELSE IF ~Verifies(transport) THEN Thrown(FALSE)
    ELSE IF ~Delivers(transport, options.email) THEN Thrown(TRUE)
    ELSE Returned

Call(fn, options, env, transport, ended) ==
    /\ call' = [ fn |-> fn, transport |-> transport, options |-> options,
                 env |-> env, ended |-> ended ]
    /\ OnlyCall

CallSendNoteEmail(options, env, transport) ==
    Call("sendNoteEmail", options, env, transport, sendNoteEmail(options, env, transport))

CallSendPasswordResetEmail(options, env, transport) ==
    Call("sendPasswordResetEmail", options, env, transport,
         sendPasswordResetEmail(options, env, transport))

CallSendVerificationOTP(options, env, transport) ==
    Call("sendVerificationOTP", options, env, transport,
         emailVerificationOTP(options, env, transport))

\* options of a call: each property given or missing
MailOptions ==
    [ email : {NoValue, "a@x"}, otp : {NoOtp, GenerateOtp(0)},
      note : {NoValue, "note"}, accessUrl : {NoValue, "/notes/1"} ]
\* process.env: each credential configured or not
MailEnvs == [ EMAIL_USERNAME : {NoValue, "user"}, EMAIL_PASSWORD : {NoValue, "pass"} ]
\* the transports of the handlers, and one that fails verify() only
MailTransports == Transports \cup {"verifyOnlyFail"}

NextMail ==
    \/ \E o \in MailOptions, e \in MailEnvs, tr \in MailTransports :
          CallSendNoteEmail(o, e, tr)
    \/ \E o \in MailOptions, e \in MailEnvs, tr \in MailTransports :
          CallSendPasswordResetEmail(o, e, tr)
    \/ \E o \in MailOptions, e \in MailEnvs, tr \in MailTransports :
          CallSendVerificationOTP(o, e, tr)

\* the functions of utils/email.js, called with every kind of options
SpecMail == Init /\ [][NextMail]_vars

\* const otp = Math.floor(100000 + Math.random() * 900000).toString()
DrawOtp(r) ==
    /\ call' = [ fn |-> "generateOtp", otp |-> OtpAt(r[1], r[2]), random |-> r ]
    /\ OnlyCall

NextOtp == \E r \in RandomValues : DrawOtp(r)

\* the generation of an OTP, as register, login and sendVerificationOTP do it
SpecOtp == Init /\ [][NextOtp]_vars

----------------------------------------------------------------------------
(* Properties.  A request is observed in the state its handler leaves:       *)
(* req, res and mail describe it, before is the store it found, users the    *)
(* store it left.                                                            *)

\* the document the request's email named when the request arrived, 0 if none
Target == FindByEmail(before, req.email)

\* the handler gave a message to the e-mail utility and the transport failed
MailFailed == mail.kind # "none" /\ ~mail.sent

OtpUnset(d) == d.emailVerificationOTP = NoOtp /\ d.emailVerificationExpire = Undefined
ResetUnset(d) == d.resetPasswordToken = Undefined /\ d.resetPasswordExpire = Undefined

\* C1: a register request whose email is that of a stored user is answered
\* 400 / success=false / 'Email already registered'; the store is left as it
\* was (no document created, no OTP stored) and no mail is attempted.
C1_DuplicateRegister ==
    (req.op = "register" /\ Target # 0) =>
        /\ res.status = 400
        /\ res.success = FALSE
        /\ res.error = "Email already registered"
        /\ users = before
        /\ mail = NoMail

C1_Witness ==
    /\ req.op = "register"
    /\ Target # 0
    /\ res.status = 400
    /\ before[Target].emailVerificationOTP = NoOtp

\* C2: a login (with email and password given) for an email with no stored
\* user, or with a password that does not match, is answered 401 /
\* success=false / 'Invalid credentials', without a token; nothing is stored
\* and no mail is attempted, whether or not the user is verified.
C2_InvalidCredentials ==
    ( /\ req.op = "login"
      /\ req.email # NoValue
      /\ req.password # NoValue
      /\ (Target = 0 \/ ~MatchPassword(before[Target], req.password)) ) =>
        /\ res.status = 401
        /\ res.success = FALSE
        /\ res.error = "Invalid credentials"
        /\ res.token = 0
        /\ users = before
        /\ mail = NoMail

C2_Witness ==
    /\ req.op = "login"
    /\ Target # 0
    /\ ~before[Target].isEmailVerified
    /\ ~MatchPassword(before[Target], req.password)
    /\ req.password # NoValue
    /\ res.status = 401

\* C3: a login with correct credentials for an unverified user stores the OTP
\* generated for this request with expiry now + 10 minutes, hands that OTP to
\* the mailer and answers 200 with verificationNeeded=true; for a verified
\* user it answers verificationNeeded=false, stores nothing and mails nothing.
C3_LoginVerificationFlag ==
    ( /\ req.op = "login"
      /\ req.email # NoValue
      /\ Target # 0
      /\ MatchPassword(before[Target], req.password) ) =>
        IF ~before[Target].isEmailVerified
        THEN /\ mail.kind = "otp"
             /\ mail.to = req.email
             /\ mail.otp \in {GenerateOtp(k) : k \in RandomSamples}
             /\ users[Target].emailVerificationOTP = mail.otp
             /\ users[Target].emailVerificationExpire = now + 10 * 60 * 1000
             /\ res.status = 200
             /\ res.verificationNeeded = "true"
        ELSE /\ res.verificationNeeded = "false"
             /\ users = before
             /\ mail = NoMail

C3_Witness ==
    /\ req.op = "login"
    /\ Target # 0
    /\ res.verificationNeeded = "true"
    /\ before[Target].emailVerificationOTP # NoOtp
    /\ before[Target].emailVerificationOTP # users[Target].emailVerificationOTP
    /\ now > 0

\* C4: a verifyEmail carrying the user's email and the OTP stored for that
\* user succeeds only strictly before (time the OTP was stored + 10 minutes);
\* at or after that time it is answered 400 'Invalid or expired OTP' and
\* isEmailVerified and the OTP fields stay as they were.
C4_OtpExpiry ==
    ( /\ req.op = "verifyEmail"
      /\ Target # 0
      /\ req.otp # NoOtp
      /\ req.otp = before[Target].emailVerificationOTP ) =>
        /\ res.success => now < issuedAt[Target].otp + 10 * 60 * 1000
        /\ now >= issuedAt[Target].otp + 10 * 60 * 1000 =>
              /\ res.status = 400
              /\ res.error = "Invalid or expired OTP"
              /\ users = before

\* the stored OTP is presented at the very millisecond its lifetime ends
C4_Witness ==
    /\ req.op = "verifyEmail"
    /\ Target # 0
    /\ req.otp # NoOtp
    /\ req.otp = before[Target].emailVerificationOTP
    /\ now = issuedAt[Target].otp + 10 * 60 * 1000
    /\ res.status = 400

\* the documents whose stored reset token is the hash of the request's token,
\* and those among them whose token was stored less than 30 minutes ago
TokenHolders ==
    {i \in 1 .. Len(before) : before[i].resetPasswordToken = Sha256(req.resettoken)}
LiveTokenHolders ==
    {i \in TokenHolders : now < issuedAt[i].token + 30 * 60 * 1000}

\* C5: a resetPassword carrying the token forgotPassword issued succeeds only
\* strictly before (time forgotPassword stored it + 30 minutes); at or after
\* that time it is answered 400 'Invalid token' and the password and the
\* reset fields stay as they were.
C5_ResetTokenExpiry ==
    req.op = "resetPassword" =>
        /\ res.success => res.user \in LiveTokenHolders
        /\ \A i \in TokenHolders \ LiveTokenHolders : users[i] = before[i]
        /\ (TokenHolders # {} /\ LiveTokenHolders = {}) =>
              /\ res.status = 400
              /\ res.error = "Invalid token"
              /\ users = before

\* the issued token is presented at the very millisecond its lifetime ends
C5_Witness ==
    /\ req.op = "resetPassword"
    /\ \E i \in TokenHolders : now = issuedAt[i].token + 30 * 60 * 1000
    /\ res.status = 400

\* C6 (as claimed): after a googleAuth that returns success, the stored user
\* with the request's email has isEmailVerified = true, whether the user was
\* created or matched by email.
C6_GoogleAuthVerifies ==
    (req.op = "googleAuth" /\ res.success) =>
        /\ FindByEmail(users, req.email) # 0
        /\ users[FindByEmail(users, req.email)].isEmailVerified

\* C7: in every document the OTP is set iff its expiry is set, and the reset
\* token is set iff its expiry is set.
C7_TransientPairs ==
    \A i \in 1 .. Len(users) :
        /\ users[i].emailVerificationOTP # NoOtp <=> users[i].emailVerificationExpire # Undefined
        /\ users[i].resetPasswordToken # Undefined <=> users[i].resetPasswordExpire # Undefined

\* a failed password-reset mail has just been rolled back on a document that
\* still holds a pending OTP
C7_Witness ==
    /\ req.op = "forgotPassword"
    /\ MailFailed
    /\ before[Target].resetPasswordToken # Undefined
    /\ users[Target].resetPasswordToken = Undefined
    /\ users[Target].emailVerificationOTP # NoOtp

\* C8: right after a successful verifyEmail the user's OTP and its expiry are
\* unset; right after a successful resetPassword the user's reset token and
\* its expiry are unset.
C8_ClearedOnSuccess ==
    /\ (req.op = "verifyEmail" /\ res.success) => OtpUnset(users[res.user])
    /\ (req.op = "resetPassword" /\ res.success) => ResetUnset(users[res.user])

C8_Witness ==
    /\ req.op = "resetPassword"
    /\ res.success
    /\ ~ResetUnset(before[res.user])
    /\ users[res.user].emailVerificationOTP # NoOtp

\* C9 (as claimed): in register, login, forgotPassword and
\* send-verification-otp, when the mail fails the pending OTP / reset token
\* the handler stored is unset once the handler has finished.
C9_RollbackInEveryHandler ==
    MailFailed =>
        LET id == FindByEmail(users, mail.to) IN
        /\ req.op \in {"register", "login", "sendVerificationOTP"} => OtpUnset(users[id])
        /\ req.op = "forgotPassword" => ResetUnset(users[id])

\* C9 (amended): register, forgotPassword and send-verification-otp unset
\* what they stored when the mail fails; login does not: the OTP it stored
\* and its expiry stay in the document.
C9_RollbackExceptLogin ==
    MailFailed =>
        LET id == FindByEmail(users, mail.to) IN
        /\ req.op \in {"register", "sendVerificationOTP"} => OtpUnset(users[id])
        /\ req.op = "forgotPassword" => ResetUnset(users[id])
        /\ req.op = "login" =>
              /\ users[id].emailVerificationOTP = mail.otp
              /\ users[id].emailVerificationExpire = now + 10 * 60 * 1000

\* send-verification-otp fails to mail for a document that held a pending OTP
C9_Witness ==
    /\ req.op = "sendVerificationOTP"
    /\ MailFailed
    /\ before[Target].emailVerificationOTP # NoOtp
    /\ OtpUnset(users[Target])

\* C10 (as claimed): in register, login, forgotPassword and
\* send-verification-otp, when the mail fails the response is 500 with
\* success=false and carries no token.
C10_MailFailureIs500 ==
    MailFailed =>
        /\ res.status = 500
        /\ res.success = FALSE
        /\ res.token = 0

\* C10 (amended): register, forgotPassword and send-verification-otp answer a
\* failed mail with 500, success=false and no token; login answers 200 with
\* success=true, a token and verificationNeeded=true.
C10_MailFailureIs500ExceptLogin ==
    MailFailed =>
        IF req.op = "login"
        THEN /\ res.status = 200
             /\ res.success = TRUE
             /\ res.token # 0
             /\ res.verificationNeeded = "true"
        ELSE /\ req.op \in {"register", "forgotPassword", "sendVerificationOTP"}
             /\ res.status = 500
             /\ res.success = FALSE
             /\ res.token = 0

C10_Witness ==
    /\ req.op = "forgotPassword"
    /\ MailFailed
    /\ res.status = 500

\* C16: forgotPassword and send-verification-otp for an email that no stored
\* user has are answered 404 / success=false; no mail is attempted and the
\* store is left as it was.
C16_UnknownEmailIs404 ==
    ( /\ req.op \in {"forgotPassword", "sendVerificationOTP"}
      /\ req.email # NoValue
      /\ \A i \in 1 .. Len(before) : before[i].email # req.email ) =>
        /\ res.status = 404
        /\ res.success = FALSE
        /\ mail = NoMail
        /\ users = before

C16_Witness ==
    /\ req.op = "forgotPassword"
    /\ req.email = "b@x"
    /\ Len(before) > 0
    /\ res.status = 404

\* the instants from now on
Later == {t \in Instants : t >= now}

\* C20: when register has answered 500 because the verification mail could
\* not be sent, the document it created is stored, not verified, with OTP and
\* expiry unset; a repeated register of the email is then answered 400
\* 'Email already registered', and a login with the registered password
\* stores a new OTP, mails it and answers 200 with verificationNeeded=true.
C20_FailedRegisterLeavesAccount ==
    (req.op = "register" /\ res.status = 500) =>
        LET id == FindByEmail(users, req.email)
        IN /\ id = Len(before) + 1
           /\ id = Len(users)
           /\ ~users[id].isEmailVerified
           /\ OtpUnset(users[id])
           /\ MatchPassword(users[id], req.password)
           /\ \A t \in Later, n \in Names, p \in Passwords, k \in RandomSamples,
                 tr \in Transports :
                 LET again == register(users, t, n, req.email, p, k, tr)
                 IN /\ again.res.status = 400
                    /\ again.res.error = "Email already registered"
                    /\ again.users = users
           /\ \A t \in Later, k \in RandomSamples, tr \in Transports :
                 LET relogin == login(users, t, req.email, req.password, k, tr)
                 IN /\ relogin.res.status = 200
                    /\ relogin.res.token = id
                    /\ relogin.res.verificationNeeded = "true"
                    /\ relogin.users[id].emailVerificationOTP = GenerateOtp(k)
                    /\ relogin.users[id].emailVerificationExpire = t + OtpTtl
                    /\ relogin.mail.kind = "otp"
                    /\ relogin.mail.otp = GenerateOtp(k)

C20_Witness ==
    /\ req.op = "register"
    /\ res.status = 500
    /\ MailFailed
    /\ Len(users) = Len(before) + 1

\* C21: isEmailVerified of a stored user turns from false to true only in a
\* verifyEmail request for that user whose otp is the stored
\* emailVerificationOTP, before emailVerificationExpire; a document is created
\* with isEmailVerified = true by googleAuth only; and no request turns
\* isEmailVerified from true to false.
C21_VerifiedOnlyByOtp ==
    ~Idle =>
        /\ \A i \in 1 .. Len(before) :
              /\ (~before[i].isEmailVerified /\ users[i].isEmailVerified) =>
                    /\ req.op = "verifyEmail"
                    /\ req.email = before[i].email
                    /\ req.otp # NoOtp
                    /\ req.otp = before[i].emailVerificationOTP
                    /\ now < before[i].emailVerificationExpire
              /\ before[i].isEmailVerified => users[i].isEmailVerified
        /\ \A i \in Len(before) + 1 .. Len(users) :
              users[i].isEmailVerified => req.op = "googleAuth"

C21_Witness ==
    /\ req.op = "verifyEmail"
    /\ Len(before) > 0
    /\ ~before[1].isEmailVerified
    /\ users[1].isEmailVerified

\* C23 (fails): a token response of register, login, resetPassword or
\* googleAuth carries verificationNeeded=true whenever the user it is for
\* is stored with isEmailVerified = false, and the user is verified whenever
\* it carries verificationNeeded=false.
C23_FlagAgreesWithStore ==
    ( /\ req.op \in {"register", "login", "resetPassword", "googleAuth"}
      /\ res.token # 0 ) =>
        /\ ~users[res.user].isEmailVerified => res.verificationNeeded = "true"
        /\ res.verificationNeeded = "false" => users[res.user].isEmailVerified

\* C24 (fails): googleAuth answers a request for a stored user with a token
\* only when the googleId of the request is the stored one or none is stored
\* (and then stores it); a googleId that is set is never overwritten.
C24_GoogleIdMustMatch ==
    /\ (req.op = "googleAuth" /\ Target # 0 /\ res.token # 0) =>
          /\ before[Target].googleId \in {NoValue, req.googleId}
          /\ users[Target].googleId = req.googleId
    /\ \A i \in 1 .. Len(before) :
          before[i].googleId # NoValue => users[i].googleId = before[i].googleId

----------------------------------------------------------------------------
(* Properties of the middleware and of the handlers on a failing store,     *)
(* under SpecApi                                                             *)

\* the request went through protect
Protected == req.op \in {"getMe", "verifiedRoute"}
\* the header starts with 'Bearer' and its second word is a token that
\* JWT_SECRET signed for the _id of a document of the store
BearerOf(store) ==
    IF /\ req.authorization.scheme \in {"Bearer", "BearerX"}
       /\ req.authorization.token \in 1 .. Len(store)
    THEN req.authorization.token ELSE 0

\* C11: protect calls next and sets req.user only if the Authorization header
\* starts with 'Bearer' and carries a token that verifies and whose user id
\* is that of a stored user (req.user is then that user); in every other case
\* it answers 401 / success=false and next is not called.
C11_ProtectLetsStoredUsersOnly ==
    Protected =>
        IF chain.next >= 1
        THEN BearerOf(before) # 0 /\ chain.user = BearerOf(before)
        ELSE res.status = 401 /\ res.success = FALSE /\ chain.err = 0

C11_Witness ==
    /\ req.op = "getMe"
    /\ req.authorization.scheme = "Bearer"
    /\ chain.next = 1
    /\ chain.user = 1
    /\ res.status = 200

\* C12: behind protect, emailVerified answers 403 / success=false /
\* 'Email verification required' / verificationNeeded=true without calling
\* next when req.user is not verified, and calls next without answering when
\* it is; the guarded route is reached only by a stored, verified user.
C12_EmailVerifiedGate ==
    (req.op = "verifiedRoute" /\ chain.next >= 1) =>
        /\ chain.user \in 1 .. Len(users)
        /\ IF users[chain.user].isEmailVerified
           THEN res = NoRes /\ chain.next = 2
           ELSE /\ res.status = 403
                /\ res.success = FALSE
                /\ res.error = "Email verification required"
                /\ res.verificationNeeded = "true"
                /\ chain.next = 1

C12_Witness ==
    /\ req.op = "verifiedRoute"
    /\ res.status = 403
    /\ chain.user = 1
    /\ ~users[1].isEmailVerified

\* C14: every response of a handler or of the middleware has the boolean
\* success; with success=true the status is 2xx, there is data or a token
\* with a user, and no error; with success=false the status is 4xx or 5xx,
\* there is an error and no token.
C14_ResponseShape ==
    res.status # 0 =>
        /\ res.success \in BOOLEAN
        /\ res.success =>
              /\ res.status \in 200 .. 299
              /\ res.data # NoValue \/ (res.token # 0 /\ res.user # 0)
              /\ res.error = NoValue
        /\ ~res.success =>
              /\ res.status \in 400 .. 599
              /\ res.error # NoValue
              /\ res.token = 0

C14_Witness ==
    /\ req.op = "verifyEmail"
    /\ res.success
    /\ res.token # 0
    /\ res.message # NoValue

\* C15: optionalAuth sends no response and calls next exactly once for every
\* request; req.user is a stored user only when the header is a Bearer header
\* whose token verifies, and stays unset without such a header or when the
\* verification fails.
C15_OptionalAuthNeverRejects ==
    req.op = "optionalRoute" =>
        /\ res = NoRes
        /\ chain.next = 1
        /\ chain.err = 0
        /\ chain.user # 0 => chain.user = BearerOf(before)
        /\ ( \/ req.authorization.scheme \notin {"Bearer", "BearerX"}
             \/ req.authorization.token <= 0 ) => ~chain.assigned

C15_Witness ==
    /\ req.op = "optionalRoute"
    /\ req.authorization.scheme = "Bearer"
    /\ req.authorization.token < 0
    /\ Len(users) > 0
    /\ chain.next = 1

\* the request reached a controller handler
Handled ==
    \/ req.op \in {"register", "login", "forgotPassword", "resetPassword",
                   "googleAuth", "verifyEmail", "sendVerificationOTP"}
    \/ req.op = "getMe" /\ chain.next = 1

\* a required field of the body is missing
MissingFields ==
    \/ req.op = "login" /\ (req.email = NoValue \/ req.password = NoValue)
    \/ req.op = "googleAuth" /\ (req.email = NoValue \/ req.name = NoValue
                                     \/ req.googleId = NoValue)
    \/ req.op = "verifyEmail" /\ (req.email = NoValue \/ req.otp = NoOtp)
    \/ req.op = "sendVerificationOTP" /\ req.email = NoValue

\* the operation on the store that throws is the save of the inner catch,
\* after the mail has failed
RollbackThrows ==
    /\ MailFailed
    /\ \/ req.op = "register" /\ req.storeFault = 4
       \/ req.op \in {"forgotPassword", "sendVerificationOTP"} /\ req.storeFault = 3

\* the operation on the store that throws is the first one of the handler
FirstOpThrows ==
    \/ req.op = "getMe" /\ chain.next = 1 /\ req.storeFault = 2
    \/ req.op # "getMe" /\ Handled /\ req.storeFault = 1 /\ ~MissingFields

\* the operation on the store that throws is the create or the save that
\* follows the first findOne of the handler
SecondOpThrows ==
    /\ ~MissingFields
    /\ \/ req.op = "register" /\ req.storeFault \in {2, 3} /\ Target = 0
       \/ /\ req.op = "login" /\ req.storeFault = 2 /\ Target # 0
          /\ MatchPassword(before[Target], req.password)
          /\ ~before[Target].isEmailVerified
       \/ /\ req.op \in {"forgotPassword", "sendVerificationOTP"}
          /\ req.storeFault = 2 /\ Target # 0
       \/ /\ req.op = "resetPassword" /\ req.storeFault = 2
          /\ FindByResetToken(before, Sha256(req.resettoken), now) # 0
       \/ /\ req.op = "googleAuth" /\ req.storeFault = 2
          /\ (Target = 0 \/ before[Target].googleId = NoValue)
       \/ /\ req.op = "verifyEmail" /\ req.storeFault = 2
          /\ FindByOtp(before, req.email, req.otp, now) # 0

\* C17: when an operation on the store throws in a handler (a find, a
\* create or a save, the save that rolls back after a failed mail included),
\* the handler sends no response and calls next once, with the error; and
\* every invocation of a handler ends with a response or with next(err), not
\* both and not neither.
C17_StoreFailureGoesToNext ==
    Handled =>
        /\ (FirstOpThrows \/ SecondOpThrows \/ RollbackThrows) =>
              (res = NoRes /\ chain.err = 1)
        /\ (res.status # 0) # (chain.err = 1)
        /\ chain.err <= 1

C17_Witness ==
    /\ req.op = "register"
    /\ RollbackThrows
    /\ chain.err = 1
    /\ users[Len(users)].emailVerificationOTP # NoOtp

\* C18: login without email or password, googleAuth without email, name or
\* googleId, verifyEmail without email or otp and send-verification-otp
\* without email are answered 400 before the store is touched: the store is
\* as it was, no mail is attempted, and a store that throws goes unnoticed.
C18_MissingFieldsRejected ==
    MissingFields =>
        /\ res.status = 400
        /\ res.success = FALSE
        /\ users = before
        /\ mail = NoMail
        /\ chain.err = 0

C18_Witness ==
    /\ req.op = "login"
    /\ req.email # NoValue
    /\ req.password = NoValue
    /\ req.storeFault = 1
    /\ Len(users) > 0
    /\ res.status = 400

----------------------------------------------------------------------------
(* Properties of the password reset, under SpecReset *)

\* C13: once a resetPassword with a token has succeeded, every later
\* resetPassword with that token is answered 400 'Invalid token' and changes
\* no password (nor anything else in the store), unless a forgotPassword has
\* mailed the same token again in between.
C13_ResetTokenSingleUse ==
    (req.op = "resetPassword" /\ req.resettoken \in trail.spent) =>
        /\ res.status = 400
        /\ res.success = FALSE
        /\ res.error = "Invalid token"
        /\ users = before

C13_Witness ==
    /\ req.op = "resetPassword"
    /\ req.resettoken \in trail.spent
    /\ ResetOf(trail, 1).new # NoValue
    /\ now < ResetTtl
    /\ res.status = 400

\* the document whose pending reset token is the hash of the token of the
\* request, mailed less than 30 minutes ago; 0 if there is none
Redeemed ==
    First({i \in 1 .. Len(before) :
             /\ before[i].resetPasswordToken = Sha256(req.resettoken)
             /\ issuedAt[i].token # Undefined
             /\ now < issuedAt[i].token + ResetTtl})

\* C19: a forgotPassword that mailed a token stored the hash of that token,
\* never the token; a resetPassword presenting the mailed token less than 30
\* minutes later, no other forgotPassword for the user having come between,
\* is answered 200 with a token for that user and stores the new password;
\* from then on login with the new password succeeds, and login with the
\* replaced password, if it is another one, is answered 401.
C19_ForgotResetRoundTrip ==
    /\ (req.op = "forgotPassword" /\ mail.sent) =>
          /\ Target # 0
          /\ mail.to = req.email
          /\ users[Target].resetPasswordToken = Sha256(mail.resetToken)
          /\ users[Target].resetPasswordToken # mail.resetToken
    /\ (req.op = "resetPassword" /\ Redeemed # 0) =>
          /\ res.status = 200
          /\ res.success
          /\ res.token = JwtSign(Redeemed)
          /\ res.user = Redeemed
          /\ MatchPassword(users[Redeemed], req.password)
    /\ (req.op = "login" /\ Target # 0 /\ ResetOf(trail, Target).new # NoValue) =>
          LET last == ResetOf(trail, Target)
          IN /\ req.password = last.new =>
                   (res.status = 200 /\ res.success /\ res.token = JwtSign(Target))
             /\ (req.password # last.new /\ HashPassword(req.password) = last.old) =>
                   (res.status = 401 /\ res.success = FALSE /\ res.token = 0)

C19_Witness ==
    /\ req.op = "login"
    /\ Target # 0
    /\ ResetOf(trail, Target).new # NoValue
    /\ req.password # ResetOf(trail, Target).new
    /\ HashPassword(req.password) = ResetOf(trail, Target).old
    /\ res.status = 401

----------------------------------------------------------------------------
(* Properties of the utilities *)

RECURSIVE ParseInt(_)
\* the integer a string of decimal digits denotes
ParseInt(digits) ==
    IF digits = << >> THEN 0
    ELSE 10 * ParseInt(SubSeq(digits, 1, Len(digits) - 1)) + digits[Len(digits)]

\* the call was one of the three functions that C28 names
Mailed == call.fn \in {"sendNoteEmail", "sendPasswordResetEmail", "sendVerificationOTP"}

\* C28: sendNoteEmail throws without calling sendMail when options.email,
\* options.note or options.accessUrl is missing or when EMAIL_USERNAME or
\* EMAIL_PASSWORD is not configured; sendNoteEmail, sendPasswordResetEmail and
\* sendVerificationOTP throw whenever verify (where they call it) or sendMail
\* fails; so each returns normally only if sendMail took the message.
C28_MailerThrows ==
    Mailed =>
        /\ ( /\ call.fn = "sendNoteEmail"
             /\ \/ call.options.email = NoValue
                \/ call.options.note = NoValue
                \/ call.options.accessUrl = NoValue
                \/ call.env.EMAIL_USERNAME = NoValue
                \/ call.env.EMAIL_PASSWORD = NoValue ) =>
              (call.ended.threw /\ ~call.ended.sendMailCalled)
        /\ ( /\ call.fn # "sendNoteEmail"
             /\ call.transport \in {"verifyFail", "verifyOnlyFail"} ) =>
              (call.ended.threw /\ ~call.ended.sendMailCalled)
        /\ call.transport \in {"verifyFail", "sendFail"} => call.ended.threw
        /\ ~call.ended.threw => (call.ended.sendMailCalled /\ call.ended.handed)
        /\ call.ended.handed =>
              (call.options.email # NoValue /\ call.transport \in {"ok", "verifyOnlyFail"})
        /\ (call.options.email # NoValue /\ call.transport \in Transports) =>
              /\ ( call.fn = "sendVerificationOTP" /\ call.options.otp # NoOtp ) =>
                    call.ended.handed =
                        VerificationMail(call.options.email, call.options.otp,
                                         call.transport).sent
              /\ call.fn = "sendPasswordResetEmail" =>
                    call.ended.handed =
                        PasswordResetMail(call.options.email, 1, call.transport).sent

C28_Witness ==
    /\ call.fn = "sendNoteEmail"
    /\ call.options.email # NoValue
    /\ call.options.note # NoValue
    /\ call.options.accessUrl # NoValue
    /\ call.env.EMAIL_USERNAME # NoValue
    /\ call.env.EMAIL_PASSWORD = NoValue
    /\ call.transport = "ok"
    /\ call.ended.threw

\* C29: every OTP that register, login and send-verification-otp generate is
\* the decimal string of an integer from 100000 to 999999: six digits, the
\* first of them not 0, for every value of Math.random() in [0, 1).
C29_OtpHasSixDigits ==
    call.fn = "generateOtp" =>
        /\ Len(call.otp) = 6
        /\ \A i \in 1 .. Len(call.otp) : call.otp[i] \in 0 .. 9
        /\ call.otp[1] # 0
        /\ ParseInt(call.otp) \in 100000 .. 999999

C29_Witness ==
    /\ call.fn = "generateOtp"
    /\ call.random[1] = call.random[2] - 1
    /\ call.otp = <<9, 9, 9, 9, 9, 9>>

----------------------------------------------------------------------------
(* Properties of the verification codes, under SpecVerify *)

\* the history of the OTPs of the document the request names
TargetCodes == CodesOf(codes, Target)

Rejected ==
    /\ res.status = 400
    /\ res.success = FALSE
    /\ res.error = "Invalid or expired OTP"
    /\ users = before

\* C22 as stated (fails): a verifyEmail with an OTP other than the one
\* stored last for the user is answered 400, and so is every verifyEmail
\* with an OTP that a verifyEmail of the user has succeeded with before.
C22_OnlyLatestOtpOnce ==
    (req.op = "verifyEmail" /\ Target # 0 /\ req.otp # NoOtp) =>
        /\ req.otp # TargetCodes.latest => Rejected
        /\ req.otp \in TargetCodes.ever => Rejected

\* C22 (amended): once register, login or send-verification-otp has stored
\* a new OTP for a user, a verifyEmail with any other OTP, one issued before
\* and within its own 10 minutes included, is answered 400; and after a
\* successful verifyEmail the same OTP is answered 400 until a handler
\* issues that same OTP to the user again.
C22_OnlyLatestOtpUntilReissued ==
    (req.op = "verifyEmail" /\ Target # 0 /\ req.otp # NoOtp) =>
        /\ req.otp # TargetCodes.latest => Rejected
        /\ req.otp \in TargetCodes.spent => Rejected

C22_Witness ==
    /\ req.op = "verifyEmail"
    /\ Target # 0
    /\ req.otp = TargetCodes.prev
    /\ req.otp # TargetCodes.latest
    /\ now < TargetCodes.prevAt + OtpTtl
    /\ before[Target].emailVerificationOTP = TargetCodes.latest
    /\ res.status = 400

----------------------------------------------------------------------------
(* Properties of interleaved requests, under SpecRace *)

\* the requests of slots s and o are two requests
Together(s, o) == s # o /\ procs[s].op # "none" /\ procs[o].op # "none"

\* request o stored a verification OTP and the mail that carries it was
\* sent while the store held it
DeliveredOtp(o) ==
    /\ procs[o].op \in {"register", "sendVerificationOTP"}
    /\ procs[o].sent
    /\ procs[o].held

\* request o stored a reset token and the mail that carries it was sent
\* while the store held it
DeliveredToken(o) ==
    /\ procs[o].op = "forgotPassword"
    /\ procs[o].sent
    /\ procs[o].held

\* the mail of request s failed and the save of its inner catch has run
RolledBack(s) ==
    /\ procs[s].op \in {"register", "sendVerificationOTP", "forgotPassword"}
    /\ procs[s].pc = "done"
    /\ procs[s].status = 500

\* C25 as stated (fails): when findOne and create are separate steps of
\* register and googleAuth that interleave, and the store does not reject a
\* duplicate, no two user documents ever hold the same email.
C25_OneDocumentPerEmail ==
    \A i, j \in 1..Len(users) : users[i].email = users[j].email => i = j

\* C26 as stated (fails): of the resetPassword requests in progress together
\* that carry the same token, at most one is answered 200 and sets the
\* password.
C26_OneResetPerToken ==
    \A s, o \in Slots :
        ( /\ Together(s, o)
          /\ procs[s].op = "resetPassword"
          /\ procs[o].op = "resetPassword"
          /\ procs[s].resettoken = procs[o].resettoken
          /\ procs[s].status = 200 ) => procs[o].status # 200

\* C27 as stated (fails): the save that unsets the OTP or the reset token
\* after a request's mail failed never unsets the OTP or the token that
\* another request in progress together with it stored for the same user
\* and whose mail was sent.
C27_RollbackSparesDelivered ==
    \A s, o \in Slots :
        (Together(s, o) /\ RolledBack(s) /\ procs[o].id = procs[s].id) =>
            /\ DeliveredOtp(o) =>
                    (procs[s].wipedOtp = procs[o].code => procs[s].code = procs[o].code)
            /\ DeliveredToken(o) =>
                    (procs[s].wipedToken = Sha256(procs[o].resettoken)
                        => procs[s].resettoken = procs[o].resettoken)

====
